---- MODULE Spec2Model ----
(***************************************************************************)
(* Model of Kitsune::Jinja2::Jinja2Converter (src/src/jinja2_converter.cpp) *)
(*                                                                         *)
(* A std::string is a sequence of characters (one-character TLA+ strings;  *)
(* the fixed wording of the error message is kept as whole-line tokens).   *)
(* A Jinja2Item chain is a sequence of node records: the head is the item, *)
(* the tail is its `next` pointer and the empty sequence is nullptr.       *)
(* A DataItem is a record with one field per payload; a DataMap's content  *)
(* is the set of its <<key, item>> pairs.                                  *)
(***************************************************************************)
EXTENDS Integers, Sequences, FiniteSets, TLC

VARIABLES pc,        \* per caller: position inside convert()
          tmpl,      \* per caller: the templateString argument
          input,     \* per caller: the DataMap the `input` pointer refers to
          input0,    \* per caller: that DataMap as it was when convert() was called
          m_driver,  \* the parser interface shared by all callers
          output,    \* per caller: the local `Jinja2Item* output`
          result,    \* per caller: the local `std::pair<bool, std::string> result`
          ev,        \* per caller: record of the evaluation (history of the calls made)
          m_lock     \* the mutex member of the converter

vars == <<pc, tmpl, input, input0, m_driver, output, result, ev, m_lock>>

----------------------------------------------------------------------------
(* Bounds *)

MaxPrefix == 1      \* nodes in front of the node under study
MaxArr == 2         \* elements of a DataArray in the context

Threads == {1, 2}

----------------------------------------------------------------------------
(* Common::DataItem *)

DataItem(t, s, n, items, fields) ==
    [t |-> t, s |-> s, n |-> n, items |-> items, fields |-> fields]

StringValue(s) == DataItem("String", s, 0, <<>>, {})
IntValue(n) == DataItem("Int", <<>>, n, <<>>, {})
BoolValue == DataItem("Bool", <<>>, 1, <<>>, {})
FloatValue == DataItem("Float", <<>>, 0, <<>>, {})
DataArray(items) == DataItem("Array", <<>>, 0, items, {})
DataMap(fields) == DataItem("Map", <<>>, 0, <<>>, fields)
nullptr == DataItem("nullptr", <<>>, 0, <<>>, {})

\* DataItem::get(const std::string&): only a map has keys
DataGet(item, key) ==
    IF item.t = "Map" /\ (\E e \in item.fields : e[1] = key)
    THEN (CHOOSE e \in item.fields : e[1] = key)[2]
    ELSE nullptr

insertNoForce(map, key, value) ==
    IF \E e \in map.fields : e[1] = key
    THEN map
    ELSE [map EXCEPT !.fields = @ \cup {<<key, value>>}]

\* DataMap::insert(key, value, force = true)
insert(map, key, value) ==
    [map EXCEPT !.fields = {e \in @ : e[1] # key} \cup {<<key, value>>}]

\* DataItem::toValue(): the item as a DataValue, nullptr for a map or an array
toValue(item) == IF item.t \in {"Map", "Array"} THEN nullptr ELSE item

Digits == <<"0", "1", "2", "3", "4", "5", "6", "7", "8", "9">>

RECURSIVE NatToString(_)
NatToString(n) ==
    IF n < 10 THEN <<Digits[n + 1]>>
    ELSE NatToString(n \div 10) \o <<Digits[(n % 10) + 1]>>

\* std::to_string(int)
to_string(n) == IF n < 0 THEN <<"-">> \o NatToString(-n) ELSE NatToString(n)

\* DataValue::toString() of the right side of an if-condition
toString(value) == IF value.t = "Int" THEN to_string(value.n) ELSE value.s

----------------------------------------------------------------------------
(* Jinja2Item *)

Jinja2Item(type, text, path, rhs, var, child, elseChild) ==
    [type |-> type, text |-> text, path |-> path, rhs |-> rhs, var |-> var,
     child |-> child, elseChild |-> elseChild]

TextItem(text) ==
    Jinja2Item("TEXT_ITEM", text, <<>>, StringValue(<<>>), "", <<>>, <<>>)
ReplaceItem(iterateArray) ==
    Jinja2Item("REPLACE_ITEM", <<>>, iterateArray, StringValue(<<>>), "", <<>>, <<>>)
IfItem(leftSide, rightSide, ifChild, elseChild) ==
    Jinja2Item("IF_ITEM", <<>>, leftSide, rightSide, "", ifChild, elseChild)
ForLoopItem(tempVarName, iterateArray, forChild) ==
    Jinja2Item("FOR_ITEM", <<>>, iterateArray, StringValue(<<>>), tempVarName, forChild, <<>>)

----------------------------------------------------------------------------
(* Jinja2Converter: the private helpers *)

RECURSIVE getItemFrom(_, _, _)
getItemFrom(tempJson, jsonPath, i) ==
    IF i > Len(jsonPath) THEN tempJson
    ELSE LET nxt == DataGet(tempJson, jsonPath[i])
         IN  IF nxt = nullptr THEN nullptr
             ELSE getItemFrom(nxt, jsonPath, i + 1)

\* the pair getItem returns for what the search ended on
Found(tempJson) == [first |-> tempJson, second |-> tempJson # nullptr]

getItem(in, jsonPath) == Found(getItemFrom(in, jsonPath, 1))

\* getString once getItem has returned item. `ub` is what the build does with
\* item.first->toValue()->getValueType() when toValue() is the null pointer:
\* the process dies ("crash"), or the read yields a tag that is neither
\* STRING_TYPE nor INT_TYPE ("fail").
getStringOf(item, ub) ==
    IF ~item.second
    THEN [first |-> <<>>, second |-> FALSE, crash |-> FALSE]
    ELSE IF toValue(item.first) = nullptr
    THEN [first |-> <<>>, second |-> FALSE, crash |-> (ub = "crash")]
    ELSE IF toValue(item.first).t = "String"
    THEN [first |-> toValue(item.first).s, second |-> item.second, crash |-> FALSE]
    ELSE IF toValue(item.first).t = "Int"
    THEN [first |-> to_string(toValue(item.first).n), second |-> item.second,
          crash |-> FALSE]
    ELSE [first |-> <<>>, second |-> FALSE, crash |-> FALSE]

getString(in, jsonPath, ub) == getStringOf(getItem(in, jsonPath), ub)

ErrHeader == <<"error while converting jinja2-template \n",
               "    can not find item in path in json-input: ">>
ErrFooter == <<"\n",
               "    or maybe the item does not have a valid format",
               " or the place where it should be used \n">>

RECURSIVE joinPath(_, _)
joinPath(jsonPath, i) ==
    IF i > Len(jsonPath) THEN <<>>
    ELSE (IF i # 1 THEN <<".">> ELSE <<>>) \o joinPath(jsonPath, i + 1)

createErrorMessage(jsonPath) == ErrHeader \o joinPath(jsonPath, 1) \o ErrFooter

----------------------------------------------------------------------------
(* Jinja2Converter: the evaluation                                         *)
(*                                                                         *)
(* An evaluation record E carries what the C++ functions share through     *)
(* their pointer arguments (input, output) and their return value (ret),   *)
(* whether the process died (crash), and a history of what was done:       *)
(*   fail   the last failure raised: its kind and the path it was about    *)
(*   gets   one entry per completed getString call of a Replace or If      *)
(*   ifs    one entry per completed processIfCondition call                *)
(*   fors   one entry per completed processForLoop call that ran its loop  *)
(*   binds  one entry per DataMap::insert of a loop variable               *)
(***************************************************************************)

NoFail == [kind |-> "none", path |-> <<>>]

StartEval(in) ==
    [input |-> in, output |-> <<>>, ret |-> TRUE, crash |-> FALSE, fail |-> NoFail,
     gets |-> <<>>, ifs |-> <<>>, fors |-> <<>>, binds |-> <<>>]

appendTextOverwrite(out, text) == text

\* output->append(textItem->text)
appendText(out, text) == out \o text

reportKeepOutput(out, jsonPath) == out \o createErrorMessage(jsonPath)

\* output->clear(); output->append(createErrorMessage(path));
reportError(out, jsonPath) == createErrorMessage(jsonPath)

conditionWithoutTrue(value, rightSide) ==
    \/ value = toString(rightSide)
    \/ value = <<"t", "r", "u", "e">>

\* the condition of the if-statement in processIfCondition
condition(value, rightSide) ==
    \/ value = toString(rightSide)
    \/ value = <<"T", "r", "u", "e">>
    \/ value = <<"t", "r", "u", "e">>

arrayGetFirst(array, i) == array.items[1]

\* array->get(i) with the 0-based i of the loop, here 1-based
arrayGet(array, i) == array.items[i]

\* the evaluation record with the getString call of a Replace or If noted
Logged(E, jsonPath, jsonValue) ==
    [E EXCEPT !.gets = Append(@,
        [path |-> jsonPath, item |-> getItem(E.input, jsonPath).first,
         first |-> jsonValue.first, second |-> jsonValue.second])]

\* process a failure: the buffer becomes the error message, the call returns false
Failure(E, jsonPath) ==
    [E EXCEPT !.output = reportError(@, jsonPath),
              !.ret = FALSE,
              !.fail = [kind |-> "lookup", path |-> jsonPath]]

\* if(processX(...) == false) { return false; } ... return true;
Returned(r) == IF r.crash \/ r.ret = FALSE THEN r ELSE [r EXCEPT !.ret = TRUE]

RECURSIVE processItem(_, _, _)

\* processReplace once getString has returned jsonValue
processReplaceWith(E, replaceObject, next, ub, jsonValue) ==
    IF jsonValue.crash THEN [E EXCEPT !.crash = TRUE]
    ELSE IF jsonValue.second = FALSE
    THEN Failure(Logged(E, replaceObject.path, jsonValue), replaceObject.path)
    ELSE processItem([Logged(E, replaceObject.path, jsonValue)
                         EXCEPT !.output = @ \o jsonValue.first], next, ub)

processReplace(E, replaceObject, next, ub) ==
    processReplaceWith(E, replaceObject, next, ub,
                       getString(E.input, replaceObject.path, ub))

IfEntry(ifCondition, next, jsonValue, B, R) ==
    [left |-> jsonValue.first, rightSide |-> ifCondition.rhs,
     hasElse |-> ifCondition.elseChild # <<>>,
     branch |-> IF condition(jsonValue.first, ifCondition.rhs) THEN "then"
                ELSE IF ifCondition.elseChild # <<>> THEN "else" ELSE "none",
     branchRet |-> B.ret, nextRun |-> next # <<>>, ret |-> R.ret]

\* processIfCondition once processItem(input, ifCondition->next, output) has returned R
processIfConditionDone(ifCondition, next, jsonValue, B, R) ==
    IF R.crash THEN R
    ELSE [R EXCEPT !.ifs = Append(@, IfEntry(ifCondition, next, jsonValue, B, R))]

\* processIfCondition once the branch has been evaluated and left B: what the
\* branch returned is dropped and the call goes on to `next`
processIfConditionNext(ifCondition, next, ub, jsonValue, B) ==
    IF B.crash THEN B
    ELSE processIfConditionDone(ifCondition, next, jsonValue, B,
                                processItem(B, next, ub))

\* processIfCondition once getString has returned jsonValue
processIfConditionWith(E, ifCondition, next, ub, jsonValue) ==
    IF jsonValue.crash THEN [E EXCEPT !.crash = TRUE]
    ELSE IF jsonValue.second = FALSE
    THEN Failure(Logged(E, ifCondition.path, jsonValue), ifCondition.path)
    ELSE processIfConditionNext(ifCondition, next, ub, jsonValue,
            IF condition(jsonValue.first, ifCondition.rhs)
            THEN processItem(Logged(E, ifCondition.path, jsonValue),
                             ifCondition.child, ub)
            ELSE IF ifCondition.elseChild # <<>>
            THEN processItem(Logged(E, ifCondition.path, jsonValue),
                             ifCondition.elseChild, ub)
            ELSE [Logged(E, ifCondition.path, jsonValue) EXCEPT !.ret = TRUE])

processIfCondition(E, ifCondition, next, ub) ==
    processIfConditionWith(E, ifCondition, next, ub,
                           getString(E.input, ifCondition.path, ub))

\* tempLoopInput->insert(forLoop->tempVarName, array->get(i), true);
Bound(E, forLoop_, array, k) ==
    [E EXCEPT !.input = insert(@, forLoop_.var, arrayGet(array, k)),
              !.binds = Append(@, <<forLoop_.var, arrayGet(array, k)>>)]

IterEntry(E, forLoop_, array, k, B) ==
    [index |-> k,
     bound |-> DataGet(Bound(E, forLoop_, array, k).input, forLoop_.var),
     before |-> E.output, after |-> B.output, ret |-> B.ret, fail |-> B.fail]

\* the for-statement of processForLoop from index k on; `iters` collects one
\* entry per body evaluation that returned
RECURSIVE forLoop(_, _, _, _, _, _)

\* the k-th pass once processItem(tempLoopInput, forLoop->forChild, output) has returned B
forLoopBodyDone(E, forLoop_, array, k, iters, ub, B) ==
    IF B.crash THEN [E |-> B, iters |-> iters, failed |-> TRUE]
    ELSE IF B.ret = FALSE
    THEN [E |-> B, iters |-> Append(iters, IterEntry(E, forLoop_, array, k, B)),
          failed |-> TRUE]
    ELSE forLoop(B, forLoop_, array, k + 1,
                 Append(iters, IterEntry(E, forLoop_, array, k, B)), ub)

forLoop(E, forLoop_, array, k, iters, ub) ==
    IF k > Len(array.items)
    THEN [E |-> E, iters |-> iters, failed |-> FALSE]
    ELSE forLoopBodyDone(E, forLoop_, array, k, iters, ub,
            processItem(Bound(E, forLoop_, array, k), forLoop_.child, ub))

ForEntry(E, forLoop_, array, L, nextRun, ret) ==
    [array |-> array.items, var |-> forLoop_.var, body |-> forLoop_.child,
     iters |-> L.iters, outBefore |-> E.output, outLoop |-> L.E.output,
     nextRun |-> nextRun, ret |-> ret]

\* processForLoop once processItem(input, forLoop->next, output) has returned R
processForLoopDone(E, forLoop_, next, array, L, R) ==
    IF R.crash THEN R
    ELSE [R EXCEPT !.fors = Append(@,
            ForEntry(E, forLoop_, array, L, next # <<>>, R.ret))]

\* processForLoop once the for-statement has ended with L
processForLoopNext(E, forLoop_, next, ub, array, L) ==
    IF L.E.crash THEN L.E
    ELSE IF L.failed
    THEN [L.E EXCEPT !.ret = FALSE,
                     !.fors = Append(@, ForEntry(E, forLoop_, array, L, FALSE, FALSE))]
    ELSE processForLoopDone(E, forLoop_, next, array, L, processItem(L.E, next, ub))

\* processForLoop once getItem has returned jsonValue
processForLoopWith(E, forLoop_, next, ub, jsonValue) ==
    IF jsonValue.second = FALSE
    THEN [E EXCEPT !.output = reportError(@, forLoop_.path),
                   !.ret = FALSE,
                   !.fail = [kind |-> "lookup", path |-> forLoop_.path]]
    ELSE IF jsonValue.first.t # "Array"
    THEN [E EXCEPT !.ret = FALSE,
                   !.fail = [kind |-> "nonarray", path |-> forLoop_.path]]
    ELSE processForLoopNext(E, forLoop_, next, ub, jsonValue.first,
                            forLoop(E, forLoop_, jsonValue.first, 1, <<>>, ub))

processForLoop(E, forLoop_, next, ub) ==
    processForLoopWith(E, forLoop_, next, ub, getItem(E.input, forLoop_.path))

processItem(E, part, ub) ==
    IF part = <<>> THEN [E EXCEPT !.ret = TRUE]
    ELSE CASE Head(part).type = "TEXT_ITEM" ->
                processItem([E EXCEPT !.output = appendText(@, Head(part).text)],
                            Tail(part), ub)
           [] Head(part).type = "REPLACE_ITEM" ->
                Returned(processReplace(E, Head(part), Tail(part), ub))
           [] Head(part).type = "IF_ITEM" ->
                Returned(processIfCondition(E, Head(part), Tail(part), ub))
           [] Head(part).type = "FOR_ITEM" ->
                Returned(processForLoop(E, Head(part), Tail(part), ub))

----------------------------------------------------------------------------
(* Inputs: the templates and the contexts convert() is called with *)

a == <<"a">>
b == <<"b">>
true == <<"t", "r", "u", "e">>
True == <<"T", "r", "u", "e">>
Ada == <<"A", "d", "a">>

user == <<"user">>
user_name == <<"user", "name">>
i == <<"i">>

RECURSIVE SeqsUpTo(_, _)
SeqsUpTo(S, n) ==
    IF n = 0 THEN {<<>>}
    ELSE LET shorter == SeqsUpTo(S, n - 1)
         IN  shorter \cup {Append(q, x) : q \in shorter, x \in S}

\* the items of the arrays: two that getString renders and one it refuses
Elements == {IntValue(1), IntValue(2), BoolValue}

Arrays == {DataArray(items) : items \in SeqsUpTo(Elements, MaxArr)}

\* what the key "user" holds
UserValues ==
    {StringValue(true), StringValue(True), StringValue(<<"1">>), StringValue(<<"x">>),
     IntValue(1), IntValue(-12), BoolValue, FloatValue,
     DataMap({}), DataMap({<<"name", StringValue(Ada)>>}),
     DataMap({<<"name", DataArray(<<IntValue(1), IntValue(2)>>)>>}),
     DataArray(<<DataArray(<<IntValue(1)>>), IntValue(1)>>)}
    \cup Arrays

\* every context has the key "k", which no loop binds; "user" may be missing
Contexts ==
    {DataMap({<<"k", StringValue(<<"z">>)>>})}
    \cup {DataMap({<<"k", StringValue(<<"z">>)>>, <<"user", v>>}) : v \in UserValues}

Paths == {user, user_name, i}

Leaves == {TextItem(a), TextItem(b)} \cup {ReplaceItem(p) : p \in Paths}

Branches == {<<>>, <<TextItem(a)>>, <<ReplaceItem(user_name)>>}

IfItems ==
    {IfItem(p, r, t, e) :
        p \in {user}, r \in {StringValue(<<"x">>), IntValue(1)},
        t \in Branches, e \in Branches}
    \cup {IfItem(<<"k">>, StringValue(<<"z">>),
                 <<ForLoopItem("i", user, <<ReplaceItem(i)>>)>>, <<>>)}

Bodies ==
    {<<>>,
     <<ReplaceItem(i)>>,
     <<TextItem(a), ReplaceItem(i)>>,
     <<TextItem(a), ForLoopItem("j", i, <<TextItem(b)>>)>>,
     <<IfItem(i, IntValue(1), <<ReplaceItem(user_name)>>, <<>>), TextItem(a)>>}

ForItems == {ForLoopItem("i", p, body) : p \in {user, user_name}, body \in Bodies}

\* the node under study, the nodes in front of it and the ones behind it
Items == Leaves \cup IfItems \cup ForItems

PrefixItems ==
    {TextItem(a),
     IfItem(user, IntValue(1), <<TextItem(b)>>, <<>>),
     ForLoopItem("i", user, <<ReplaceItem(i)>>)}

Prefixes == SeqsUpTo(PrefixItems, MaxPrefix)

Suffixes == {<<>>, <<TextItem(b)>>, <<ReplaceItem(i)>>}

Parsed(root) == [ok |-> TRUE, root |-> root]
Malformed == [ok |-> FALSE, root |-> <<>>]

Templates ==
    {Malformed}
    \cup {Parsed(pre) : pre \in Prefixes}
    \cup {Parsed(pre \o <<item>> \o post) :
            pre \in Prefixes, item \in Items, post \in Suffixes}

TemplatesMT ==
    {Malformed, Parsed(<<>>), Parsed(<<TextItem(a)>>), Parsed(<<ReplaceItem(user)>>),
     Parsed(<<ForLoopItem("i", user, <<ReplaceItem(i)>>)>>)}

ContextsMT ==
    {DataMap({<<"user", StringValue(Ada)>>}),
     DataMap({<<"user", DataArray(<<IntValue(1), IntValue(2)>>)>>})}

----------------------------------------------------------------------------
(* Jinja2ParserInterface *)

ParseError == <<"parse error">>

\* m_driver->parse(templateString)
parse(templateString) ==
    IF templateString.ok
    THEN [output |-> templateString.root, errorMessage |-> <<>>]
    ELSE [output |-> <<>>, errorMessage |-> ParseError]

----------------------------------------------------------------------------
(* Jinja2Converter::convert, one action per access to shared state *)

NoEval == StartEval(nullptr)

Init(C) ==
    /\ pc = [t \in Threads |-> "idle"]
    /\ tmpl = [t \in Threads |-> Malformed]
    /\ input \in [Threads -> C]
    /\ input0 = input
    /\ m_driver = [output |-> <<>>, errorMessage |-> <<>>]
    /\ output = [t \in Threads |-> <<>>]
    /\ result = [t \in Threads |-> [first |-> FALSE, second |-> <<>>]]
    /\ ev = [t \in Threads |-> NoEval]
    /\ m_lock = FALSE

\* result.first = m_driver->parse(templateString);
Parse(t, T) ==
    /\ pc[t] = "idle"
    /\ \E templateString \in T :
        /\ tmpl' = [tmpl EXCEPT ![t] = templateString]
        /\ m_driver' = parse(templateString)
        /\ result' = [result EXCEPT ![t].first = templateString.ok]
    /\ pc' = [pc EXCEPT ![t] = "parsed"]
    /\ UNCHANGED <<input, input0, output, ev, m_lock>>

\* if(result.first == false) { result.second = m_driver->getErrorMessage(); return result; }
GetErrorMessage(t) ==
    /\ pc[t] = "parsed"
    /\ result[t].first = FALSE
    /\ result' = [result EXCEPT ![t].second = m_driver.errorMessage]
    /\ pc' = [pc EXCEPT ![t] = "done"]
    /\ UNCHANGED <<tmpl, input, input0, m_driver, output, ev, m_lock>>

\* Jinja2Item* output = m_driver->getOutput(); if(output == nullptr) { return result; }
GetOutput(t) ==
    /\ pc[t] = "parsed"
    /\ result[t].first = TRUE
    /\ output' = [output EXCEPT ![t] = m_driver.output]
    /\ m_driver' = [m_driver EXCEPT !.output = <<>>]
    /\ pc' = [pc EXCEPT ![t] = IF m_driver.output = <<>> THEN "done" ELSE "got"]
    /\ UNCHANGED <<tmpl, input, input0, result, ev, m_lock>>

\* result.first = processItem(input, output, &result.second); delete output; return result;
Evaluate(t) ==
    /\ pc[t] = "got"
    /\ \E ub \in {"crash", "fail"} :
        LET E == processItem(StartEval(input[t]), output[t], ub)
        IN  /\ ev' = [ev EXCEPT ![t] = E]
            /\ input' = [input EXCEPT ![t] = E.input]
            /\ IF E.crash
               THEN /\ pc' = [pc EXCEPT ![t] = "crashed"]
                    /\ UNCHANGED <<result, output>>
               ELSE /\ pc' = [pc EXCEPT ![t] = "done"]
                    /\ result' = [result EXCEPT ![t] = [first |-> E.ret, second |-> E.output]]
                    /\ output' = [output EXCEPT ![t] = <<>>]
    /\ UNCHANGED <<tmpl, input0, m_driver, m_lock>>

\* one caller
InitOne == Init(Contexts) /\ input[2] = input[1]
ParseOne == Parse(1, Templates)
GetErrorMessageOne == GetErrorMessage(1)
GetOutputOne == GetOutput(1)
EvaluateOne == Evaluate(1)

Next == ParseOne \/ GetErrorMessageOne \/ GetOutputOne \/ EvaluateOne

Spec == InitOne /\ [][Next]_vars

\* two callers on the one converter instance
InitMT == Init(ContextsMT)
ParseMT == \E t \in Threads : Parse(t, TemplatesMT)
GetErrorMessageMT == \E t \in Threads : GetErrorMessage(t)
GetOutputMT == \E t \in Threads : GetOutput(t)
EvaluateMT == \E t \in Threads : Evaluate(t)

NextMT == ParseMT \/ GetErrorMessageMT \/ GetOutputMT \/ EvaluateMT

SpecMT == InitMT /\ [][NextMT]_vars

----------------------------------------------------------------------------
(* Vocabulary of the properties *)

Range(q) == {q[k] : k \in 1..Len(q)}

IsPrefix(p, q) == Len(p) <= Len(q) /\ SubSeq(q, 1, Len(p)) = p

Contains(q, sub) ==
    \E k \in 0..(Len(q) - Len(sub)) : SubSeq(q, k + 1, k + Len(sub)) = sub

\* the keys of a path joined by '.', each key standing for its own text
RECURSIVE JoinKeys(_)
JoinKeys(jsonPath) ==
    IF jsonPath = <<>> THEN <<>>
    ELSE IF Len(jsonPath) = 1 THEN <<jsonPath[1]>>
    ELSE <<jsonPath[1], ".">> \o JoinKeys(Tail(jsonPath))

AllText(chain) == \A k \in 1..Len(chain) : chain[k].type = "TEXT_ITEM"

RECURSIVE ConcatText(_)
ConcatText(chain) ==
    IF chain = <<>> THEN <<>> ELSE Head(chain).text \o ConcatText(Tail(chain))

Keys(map) == {e[1] : e \in map.fields}

BoundVars(E) == {bd[1] : bd \in Range(E.binds)}

LastBound(E, var) ==
    LET last == CHOOSE k \in 1..Len(E.binds) :
                    /\ E.binds[k][1] = var
                    /\ \A m \in (k + 1)..Len(E.binds) : E.binds[m][1] # var
    IN  E.binds[last][2]

\* the text of a one-digit Int item
DigitOf(item) == <<Digits[item.n + 1]>>

RECURSIVE DigitsOf(_)
DigitsOf(items) ==
    IF items = <<>> THEN <<>> ELSE DigitOf(Head(items)) \o DigitsOf(Tail(items))

OneDigitInts(items) ==
    \A k \in 1..Len(items) : items[k].t = "Int" /\ items[k].n \in 0..9

Truthy(left, rightSide) ==
    left = toString(rightSide) \/ left = True \/ left = true

\* the last body evaluation of a loop returned false, after at least one that
\* returned true
FailedLater(f) == Len(f.iters) >= 2 /\ f.iters[Len(f.iters)].ret = FALSE

----------------------------------------------------------------------------
(* Properties *)

\* C1: when the branch an If selects fails, processIfCondition returns failure,
\* the `next` chain of the If is not evaluated and convert returns success = false.
C1_IfBranchFailurePropagates ==
    \A t \in Threads : pc[t] = "done" =>
        \A f \in Range(ev[t].ifs) :
            f.branchRet = FALSE =>
                f.ret = FALSE /\ ~f.nextRun /\ result[t].first = FALSE

\* C2: whenever convert fails on a Replace, If or ForLoop path that does not
\* resolve to a usable value, or on a ForLoop source that is not an array, the
\* returned string is exactly the error message: nothing of the output
\* accumulated before the failing node is in it.
C2_FailureReturnsOnlyTheMessage ==
    \A t \in Threads :
        (pc[t] = "done" /\ tmpl[t].ok /\ result[t].first = FALSE) =>
            /\ ev[t].fail.kind \in {"lookup", "nonarray"}
            /\ result[t].second = createErrorMessage(ev[t].fail.path)

\* C3: the error string convert returns for an unresolved path contains the
\* keys of the path, in order, joined by '.'.
C3_MessageNamesThePath ==
    \A t \in Threads :
        (pc[t] = "done" /\ tmpl[t].ok /\ result[t].first = FALSE
            /\ ev[t].fail.kind = "lookup") =>
            Contains(result[t].second, JoinKeys(ev[t].fail.path))

\* C4: at most one convert call is between its parse step and its return.
C4_OneConvertAtATime ==
    Cardinality({t \in Threads : pc[t] \in {"parsed", "got"}}) <= 1

\* C5: a template of Text nodes only converts, for every context, to success
\* and the concatenation of the literals in chain order.
C5_TextOnly ==
    \A t \in Threads :
        (pc[t] = "done" /\ tmpl[t].ok /\ AllText(tmpl[t].root)) =>
            /\ result[t].first = TRUE
            /\ result[t].second = ConcatText(tmpl[t].root)

C5_Witness ==
    /\ pc[1] = "done" /\ tmpl[1].ok /\ AllText(tmpl[1].root)
    /\ Len(tmpl[1].root) >= 2
    /\ tmpl[1].root[1].text # tmpl[1].root[2].text
    /\ result[1].second = a \o b

C7_OnlyLoopBindingsChangeTheContext ==
    \A t \in Threads :
        /\ \A key \in Keys(input0[t]) \cup Keys(input[t]) :
            IF key \in BoundVars(ev[t])
            THEN DataGet(input[t], key) = LastBound(ev[t], key)
            ELSE DataGet(input[t], key) = DataGet(input0[t], key)
        /\ \A items \in SeqsUpTo(Elements, MaxArr) :
            (/\ pc[t] = "done"
             /\ tmpl[t] = Parsed(<<ForLoopItem("i", user, <<>>), ReplaceItem(i)>>)
             /\ DataGet(input0[t], "user") = DataArray(items)
             /\ items # <<>>
             /\ items[Len(items)].t = "Int") =>
                result[t] = [first |-> TRUE, second |-> DigitOf(items[Len(items)])]

C7_Witness ==
    /\ pc[1] = "done"
    /\ Len(ev[1].binds) >= 2
    /\ ev[1].binds[1][1] = ev[1].binds[2][1]
    /\ ev[1].binds[1][2] # ev[1].binds[2][2]
    /\ input[1] # input0[1]
    /\ DataGet(input0[1], "i") = nullptr
    /\ DataGet(input[1], "k") = StringValue(<<"z">>)

\* C8: an If whose condition path resolves to a string takes thenBranch exactly
\* when the string is the text of the right side, "True" or "true"; otherwise
\* it takes elseBranch when there is one and nothing when there is none. Alone
\* in a template with the branches Text a and nothing, it renders accordingly.
C8_IfCondition ==
    \A t \in Threads :
        /\ \A f \in Range(ev[t].ifs) :
            /\ f.branch = "then" <=> Truthy(f.left, f.rightSide)
            /\ f.branch = "else" <=> (~Truthy(f.left, f.rightSide) /\ f.hasElse)
            /\ f.branch = "none" <=> (~Truthy(f.left, f.rightSide) /\ ~f.hasElse)
        /\ \A r \in {StringValue(<<"x">>), IntValue(1)} :
            LET s == DataGet(input0[t], "user")
            IN  /\ (pc[t] = "done" /\ s.t = "String"
                      /\ tmpl[t] = Parsed(<<IfItem(user, r, <<TextItem(a)>>, <<>>)>>)) =>
                        result[t] = [first |-> TRUE,
                                     second |-> IF Truthy(s.s, r) THEN a ELSE <<>>]
                /\ (pc[t] = "done" /\ s.t = "String"
                      /\ tmpl[t] = Parsed(<<IfItem(user, r, <<>>, <<TextItem(a)>>)>>)) =>
                        result[t] = [first |-> TRUE,
                                     second |-> IF Truthy(s.s, r) THEN <<>> ELSE a]

C8_Witness ==
    /\ pc[1] = "done"
    /\ tmpl[1] = Parsed(<<IfItem(user, IntValue(1), <<TextItem(a)>>, <<>>)>>)
    /\ DataGet(input0[1], "user") = StringValue(True)
    /\ result[1] = [first |-> TRUE, second |-> a]
    /\ \E f \in Range(ev[1].ifs) :
        f.left = True /\ f.left # toString(f.rightSide) /\ f.branch = "then"

\* C9: getString never kills the render, succeeds exactly when the path
\* resolves to a String or an Int, and then returns the String verbatim or
\* the Int in base 10.
C9_GetStringCoercion ==
    \A t \in Threads :
        /\ pc[t] # "crashed"
        /\ \A g \in Range(ev[t].gets) :
            /\ g.second <=> g.item.t \in {"String", "Int"}
            /\ (g.second /\ g.item.t = "String") => g.first = g.item.s
            /\ (g.second /\ g.item = IntValue(1)) => g.first = <<"1">>
            /\ (g.second /\ g.item = IntValue(-12)) => g.first = <<"-", "1", "2">>

====
